---------------------------- MODULE Spec2Model ----------------------------
(***************************************************************************)
(* A model of tox's value substitution, src/tox/config/loader/ini/         *)
(* replace.py: the substitution loop `replace`, the span finder            *)
(* `_find_replace_part` (one action per program position, so that its      *)
(* loops are steps of the model), and the resolvers `_replace_match`,      *)
(* `replace_reference`, `_config_value_sources`, `replace_posargs` and     *)
(* `replace_env` as operators.                                             *)
(*                                                                         *)
(* A Python str is a sequence of one-character strings.  Indices keep the  *)
(* source's 0-based convention: the character at Python index i of s is    *)
(* s[i + 1].                                                               *)
(***************************************************************************)
EXTENDS Integers, Sequences, FiniteSets, TLC

VARIABLES
    input,       \* the `value` argument replace was called with
    conf,        \* the `conf` argument: Optional[Config]
    name,        \* the `name` argument (current environment): Optional[str]
    loader,      \* the `loader` argument: its sections
    environ,     \* os.environ
    value,       \* replace's local `value`
    pc,          \* program position
    start,       \* _find_replace_part's local `start`
    end,         \* _find_replace_part's local `end`
    match,       \* _find_replace_part's local `match`
    to_replace,  \* replace's local `to_replace`
    replaced,    \* replace's local `replaced`
    new_value,   \* replace's local `new_value`
    exc,         \* the exception that left replace ("" when none)
    exit,        \* how the substitution loop was left
    loop_value,  \* `value` as the substitution loop left it (line 35)
    call,        \* 1 in the first call of replace, 2 in a call on its output
    first        \* the first call's result, kept during the second call

vars == <<input, conf, name, loader, environ, value, pc, start, end, match,
          to_replace, replaced, new_value, exc, exit, loop_value, call, first>>

\* what a call of replace never assigns: its arguments and the environment
given == <<input, conf, name, loader, environ>>

\* the locals of _find_replace_part
finder == <<start, end, match>>

\* the locals of one pass of replace's loop
pass == <<to_replace, replaced, new_value>>

\* what the model records about the calls
calls == <<call, first>>

----------------------------------------------------------------------------
(* Bounds of the model.                                                    *)

\* longest input string drawn from the whole alphabet
MaxLen == 5

\* the model stops following a call once `value` is longer than this
MaxValueLen == 14

----------------------------------------------------------------------------
(* Python str primitives.                                                  *)

Min(S) == CHOOSE x \in S : \A y \in S : x <= y

Max(S) == CHOOSE x \in S : \A y \in S : x >= y

\* s[i] for a 0-based index inside the string
At(s, i) == s[i + 1]

\* str.find(ch, from): the least index >= from holding ch, or -1
Find(s, ch, from) ==
    LET hits == {i \in from .. Len(s) - 1 : At(s, i) = ch}
    IN IF hits = {} THEN -1 ELSE Min(hits)

\* str.rfind(ch, lo, hi): the greatest index in lo .. hi-1 holding ch, or -1
RFind(s, ch, lo, hi) ==
    LET top == IF hi > Len(s) THEN Len(s) ELSE hi
        hits == {i \in lo .. top - 1 : At(s, i) = ch}
    IN IF hits = {} THEN -1 ELSE Max(hits)

\* a slice bound as Python normalises it: negative bounds count from the end
SliceBound(i, n) ==
    IF i < 0 THEN (IF i + n < 0 THEN 0 ELSE i + n)
    ELSE (IF i > n THEN n ELSE i)

\* s[lo:hi]
PySlice(s, lo, hi) ==
    LET a == SliceBound(lo, Len(s))
        b == SliceBound(hi, Len(s))
    IN IF a >= b THEN <<>> ELSE SubSeq(s, a + 1, b)

\* s[lo:]
PyFrom(s, lo) == PySlice(s, lo, Len(s))

\* s[:hi]
PyUpTo(s, hi) == PySlice(s, 0, hi)

RECURSIVE UnescapeFrom(_, _, _)
\* str.replace("\\" + ch, ch) from index i on: left to right, not overlapping
UnescapeFrom(s, ch, i) ==
    IF i >= Len(s) THEN <<>>
    ELSE IF At(s, i) = "\\" /\ i + 1 < Len(s) /\ At(s, i + 1) = ch
         THEN <<ch>> \o UnescapeFrom(s, ch, i + 2)
         ELSE <<At(s, i)>> \o UnescapeFrom(s, ch, i + 1)

\* value.replace("\\{", "{") and then value.replace("\\}", "}")
RemoveEscapes(s) == UnescapeFrom(UnescapeFrom(s, "{", 0), "}", 0)

----------------------------------------------------------------------------
(* Program constants and the optional values of the source.                *)

CORE_PREFIX == <<"t", "o", "x">>

BASE_TEST_ENV == <<"t", "e", "s", "t", "e", "n", "v">>

\* the discriminators _replace_match compares of_type with
ENV_TYPE == <<"e", "n", "v">>

POSARGS_TYPE == <<"p", "o", "s", "a", "r", "g", "s">>

\* Optional[...]: None, or a value
None == [has |-> FALSE, v |-> <<>>]

Some(x) == [has |-> TRUE, v |-> x]

\* a mapping with no key
EmptyMap == [x \in {} |-> <<>>]

\* [a-zA-Z0-9_], which is \w on ASCII text
KeyChars ==
    {"a", "b", "c", "d", "e", "f", "g", "h", "i", "j", "k", "l", "m",
     "n", "o", "p", "q", "r", "s", "t", "u", "v", "w", "x", "y", "z",
     "A", "B", "C", "D", "E", "F", "G", "H", "I", "J", "K", "L", "M",
     "N", "O", "P", "Q", "R", "S", "T", "U", "V", "W", "X", "Y", "Z",
     "0", "1", "2", "3", "4", "5", "6", "7", "8", "9", "_"}

----------------------------------------------------------------------------
(* ARGS_GROUP and _REPLACE_REF.                                            *)

\* the indices ARGS_GROUP matches at: a ":" with no backslash right before it
ArgSeparators(s) ==
    {i \in 0 .. Len(s) - 1 :
        At(s, i) = ":" /\ ~(i > 0 /\ At(s, i - 1) = "\\")}

RECURSIVE SplitFrom(_, _)
\* the pieces of s[from:] between the separators
SplitFrom(s, from) ==
    LET seps == {i \in ArgSeparators(s) : i >= from}
    IN IF seps = {} THEN <<PyFrom(s, from)>>
       ELSE <<PySlice(s, from, Min(seps))>> \o SplitFrom(s, Min(seps) + 1)

\* ARGS_GROUP.split(value)
ARGS_GROUP_split(s) == SplitFrom(s, 0)

\* whether s[i : i + len(w)] == w
HasAt(s, w, i) == PySlice(s, i, i + Len(w)) = w

\* the index after the longest run of key characters that starts at i
RunEnd(s, i) ==
    Min({j \in i .. Len(s) : j = Len(s) \/ At(s, j) \notin KeyChars})

NoQualifier == [ok |-> FALSE, full_env |-> None, env |-> None,
                section |-> None, next |-> 0]

\* (\[(?P<full_env>testenv(:(?P<env>[^]]+))?|(?P<section>\w+))\])? on a text
\* that begins with "[": the groups and the index after the "]"
MatchQualifier(s) ==
    LET b == 1 + Len(BASE_TEST_ENV)
        c == Find(s, "]", b + 1)
        m == RunEnd(s, 1)
    IN IF HasAt(s, BASE_TEST_ENV, 1) /\ b < Len(s) /\ At(s, b) = ":" /\ c > b + 1
       THEN [ok |-> TRUE, full_env |-> Some(PySlice(s, 1, c)),
             env |-> Some(PySlice(s, b + 1, c)), section |-> None, next |-> c + 1]
       ELSE IF HasAt(s, BASE_TEST_ENV, 1) /\ b < Len(s) /\ At(s, b) = "]"
       THEN [ok |-> TRUE, full_env |-> Some(BASE_TEST_ENV),
             env |-> None, section |-> None, next |-> b + 1]
       ELSE IF m > 1 /\ m < Len(s) /\ At(s, m) = "]"
       THEN [ok |-> TRUE, full_env |-> Some(PySlice(s, 1, m)),
             env |-> None, section |-> Some(PySlice(s, 1, m)), next |-> m + 1]
       ELSE NoQualifier

\* (:(?P<default>.*))? at index i: "." stops at a line break
MatchDefault(s, i) ==
    IF i < Len(s) /\ At(s, i) = ":"
    THEN LET nl == Find(s, "\n", i + 1)
         IN Some(PySlice(s, i + 1, IF nl = -1 THEN Len(s) ELSE nl))
    ELSE None

\* _REPLACE_REF.match(value): a match anchored at the start of the text only;
\* `ok` is whether there is one, `stop` is match.end() and the other fields
\* are match.groupdict()
REPLACE_REF_match(s) ==
    LET q == IF Len(s) > 0 /\ At(s, 0) = "[" THEN MatchQualifier(s)
             ELSE [NoQualifier EXCEPT !.ok = TRUE]
        k == RunEnd(s, q.next)
    IN IF q.ok /\ k > q.next
       THEN [ok |-> TRUE, full_env |-> q.full_env, env |-> q.env,
             section |-> q.section, key |-> PySlice(s, q.next, k),
             default |-> MatchDefault(s, k),
             stop |-> k + (IF MatchDefault(s, k).has
                           THEN 1 + Len(MatchDefault(s, k).v) ELSE 0)]
       ELSE [ok |-> FALSE, full_env |-> None, env |-> None, section |-> None,
             key |-> <<>>, default |-> None, stop |-> 0]

----------------------------------------------------------------------------
(* The collaborators, as replace.py uses them.                             *)
(*                                                                         *)
(* conf    : None, or [core, envs, pos_args]; core and each of envs are    *)
(*           ConfigSets: key -> [kind, text], where kind "str" is a value  *)
(*           stringify renders as text, "obj" a value stringify cannot     *)
(*           render (text is what str() gives for it) and "err" a key      *)
(*           whose lookup raises an exception that is no KeyError.         *)
(* loader  : section name -> SectionProxy, a mapping key -> text.          *)
(* environ : variable name -> text.                                        *)

\* one source of the chain: a SectionProxy or a ConfigSet
ProxySource(entries) == [proxy |-> TRUE, entries |-> entries]

SetSource(entries) == [proxy |-> FALSE, entries |-> entries]

\* `env in conf`
EnvInConf(c, e) == e \in DOMAIN c.envs

\* loader.get_section(section): the section's proxy, or None
GetSection(l, section) ==
    IF section \in DOMAIN l THEN Some(l[section]) ELSE None

\* shell_cmd(pos_args): the arguments joined by blanks (quoting left out)
RECURSIVE ShellCmd(_)
ShellCmd(args) ==
    IF args = <<>> THEN <<>>
    ELSE IF Len(args) = 1 THEN args[1]
    ELSE args[1] \o <<" ">> \o ShellCmd(Tail(args))

----------------------------------------------------------------------------
(* _config_value_sources, replace_reference, replace_posargs, replace_env, *)
(* _replace_match.                                                         *)

\* _config_value_sources with the two yields of the unqualified case in the
\* other order: the current environment first, the core section after it
ConfigValueSources_EnvFirst(env, section, current_env, c, l) ==
    IF env.has
    THEN IF c.has /\ EnvInConf(c.v, env.v)
         THEN <<SetSource(c.v.envs[env.v])>>
         ELSE <<>>
    ELSE IF section.has
    THEN IF section.v = CORE_PREFIX
         THEN (IF c.has THEN <<SetSource(c.v.core)>> ELSE <<>>)
         ELSE LET got == GetSection(l, section.v)
              IN IF got.has THEN <<ProxySource(got.v)>> ELSE <<>>
    ELSE IF c.has
    THEN (IF current_env.has THEN <<SetSource(c.v.envs[current_env.v])>>
          ELSE <<>>)
         \o <<SetSource(c.v.core)>>
    ELSE <<>>

\* _config_value_sources without the `return` that ends the qualified cases:
\* after the named source come the core section and the current environment
ConfigValueSources_FallThrough(env, section, current_env, c, l) ==
    LET named ==
            IF env.has
            THEN IF c.has /\ EnvInConf(c.v, env.v)
                 THEN <<SetSource(c.v.envs[env.v])>>
                 ELSE <<>>
            ELSE IF section.has
            THEN IF section.v = CORE_PREFIX
                 THEN (IF c.has THEN <<SetSource(c.v.core)>> ELSE <<>>)
                 ELSE LET got == GetSection(l, section.v)
                      IN IF got.has THEN <<ProxySource(got.v)>> ELSE <<>>
            ELSE <<>>
        unqualified ==
            IF c.has
            THEN <<SetSource(c.v.core)>>
                 \o (IF current_env.has
                     THEN <<SetSource(c.v.envs[current_env.v])>>
                     ELSE <<>>)
            ELSE <<>>
    IN named \o unqualified

\* the sources the generator yields, in order
ConfigValueSources(env, section, current_env, c, l) ==
    IF env.has
    THEN IF c.has /\ EnvInConf(c.v, env.v)
         THEN <<SetSource(c.v.envs[env.v])>>
         ELSE <<>>
    ELSE IF section.has
    THEN IF section.v = CORE_PREFIX
         THEN (IF c.has THEN <<SetSource(c.v.core)>> ELSE <<>>)
         ELSE LET got == GetSection(l, section.v)
              IN IF got.has THEN <<ProxySource(got.v)>> ELSE <<>>
    ELSE IF c.has
    THEN <<SetSource(c.v.core)>>
         \o (IF current_env.has THEN <<SetSource(c.v.envs[current_env.v])>>
             ELSE <<>>)
    ELSE <<>>

\* f"{{{value}}}"
Braced(text) == <<"{">> \o text \o <<"}">>

\* how the walk over the sources ended, and the value it ended with
Outcome(how, v) == [how |-> how, v |-> v]

RECURSIVE WalkSources(_, _, _)
\* the for loop of replace_reference from the i-th source on:
\*   "hit"       a source held the key: its text, or stringify's rendering
\*   "lookup"    src[key] raised an exception that is no KeyError
\*   "stringify" stringify raised; v is str() of the value looked up
\*   "miss"      every source raised KeyError, or there was no source
WalkSources(srcs, i, key) ==
    IF i > Len(srcs) THEN Outcome("miss", <<>>)
    ELSE LET src == srcs[i]
         IN IF key \notin DOMAIN src.entries
            THEN WalkSources(srcs, i + 1, key)
            ELSE IF src.proxy THEN Outcome("hit", src.entries[key])
            ELSE IF src.entries[key].kind = "err" THEN Outcome("lookup", <<>>)
            ELSE IF src.entries[key].kind = "obj"
            THEN Outcome("stringify", src.entries[key].text)
            ELSE Outcome("hit", src.entries[key].text)

\* settings["section"] after line 107
SectionOf(m) ==
    IF ~m.section.has /\ m.full_env = Some(BASE_TEST_ENV)
    THEN Some(BASE_TEST_ENV) ELSE m.section

\* the walk replace_reference makes for a text _REPLACE_REF matches
ReferenceWalk(c, current_env, l, text) ==
    LET m == REPLACE_REF_match(text)
    IN WalkSources(ConfigValueSources(m.env, SectionOf(m), current_env, c, l),
                   1, m.key)

\* replace_reference(conf, current_env, loader, value).  An exception inside
\* the try is dropped and line 124 is reached with `value` as it is then: the
\* placeholder text, or, once line 112 has run, the value looked up
replace_reference(c, current_env, l, text) ==
    LET m == REPLACE_REF_match(text)
        walk == ReferenceWalk(c, current_env, l, text)
    IN IF ~m.ok THEN Braced(text)
       ELSE IF walk.how = "hit" THEN walk.v
       ELSE IF walk.how = "miss" /\ m.default.has THEN m.default.v
       ELSE IF walk.how = "stringify" THEN Braced(walk.v)
       ELSE Braced(text)

\* replace_posargs(args, pos_args)
replace_posargs(args, pos_args) ==
    IF ~pos_args.has
    THEN (IF args # <<>> THEN args[1] ELSE <<>>)
    ELSE ShellCmd(pos_args.v)

\* what a call gives: a str, or the exception it raises
Returns(text) == [raises |-> "", v |-> text]

Raises(e) == [raises |-> e, v |-> <<>>]

\* replace_env(args); args[0] of an empty list raises IndexError
replace_env(args, env) ==
    IF args = <<>> THEN Raises("IndexError")
    ELSE LET key == args[1]
             default == IF Len(args) = 1 THEN <<>> ELSE args[2]
         IN Returns(IF key \in DOMAIN env THEN env[key] ELSE default)

\* _replace_match(conf, current_env, loader, value); every resolver gives a
\* str, so neither `replace_value is None` nor the TypeError can happen
replace_match(c, current_env, l, env, text) ==
    LET parts == ARGS_GROUP_split(text)
        of_type == parts[1]
        args == Tail(parts)
    IN IF of_type = ENV_TYPE THEN replace_env(args, env)
       ELSE IF of_type = POSARGS_TYPE
       THEN (IF ~c.has THEN Raises("RuntimeError")
             ELSE Returns(replace_posargs(args, c.v.pos_args)))
       ELSE Returns(replace_reference(c, current_env, l, text))

----------------------------------------------------------------------------
(* replace and _find_replace_part, one action per program position.        *)

\* the positions at which a call of replace has ended; "cut" is the model's
\* own: `value` outgrew MaxValueLen and the call is followed no further
Ended == {"done", "raised", "cut"}

\* replace, line 26: the call of _find_replace_part and its first line
CallFind ==
    /\ pc = "loop"
    /\ start' = 0 /\ end' = 0 /\ match' = FALSE
    /\ pc' = "find_outer"
    /\ UNCHANGED <<given, value, pass, exc, exit, loop_value, calls>>

\* _find_replace_part: `while end != -1`
FindOuter ==
    /\ pc = "find_outer"
    /\ pc' = IF end # -1 THEN "find_scan" ELSE "find_return"
    /\ UNCHANGED <<given, value, finder, pass, exc, exit, loop_value, calls>>

\* _find_replace_part: the test of line 47, `end > 1 and value[end - 1] == "\\"`
EndEscaped(s, e) == e > 1 /\ At(s, e - 1) = "\\"

\* _find_replace_part: the test of line 52
StartEscaped(s, b) == b > 1 /\ At(s, b - 1) = "\\"

\* _find_replace_part taking the last "}" of the string where the code takes
\* the next one
FindScan_LastClose ==
    /\ pc = "find_scan"
    /\ LET e == RFind(value, "}", end, Len(value))
       IN IF e = -1 THEN end' = -1 /\ pc' = "find_outer"
          ELSE IF EndEscaped(value, e) THEN end' = e + 1 /\ pc' = "find_outer"
          ELSE end' = e /\ pc' = "find_inner"
    /\ UNCHANGED <<given, value, start, match, pass, exc, exit, loop_value,
                   calls>>

\* _find_replace_part: the next "}" and the test whether it is escaped
FindScan ==
    /\ pc = "find_scan"
    /\ LET e == Find(value, "}", end)
       IN IF e = -1 THEN end' = -1 /\ pc' = "find_outer"
          ELSE IF EndEscaped(value, e) THEN end' = e + 1 /\ pc' = "find_outer"
          ELSE end' = e /\ pc' = "find_inner"
    /\ UNCHANGED <<given, value, start, match, pass, exc, exit, loop_value,
                   calls>>

\* _find_replace_part: `while start != -1`
FindInner ==
    /\ pc = "find_inner"
    /\ pc' = IF start # -1 THEN "find_back" ELSE "find_matched"
    /\ UNCHANGED <<given, value, finder, pass, exc, exit, loop_value, calls>>

\* _find_replace_part: the last "{" before `end` and the test whether it is
\* escaped; `continue` goes back to the while with `end` as it was
FindBack ==
    /\ pc = "find_back"
    /\ LET b == RFind(value, "{", 0, end)
       IN /\ start' = b
          /\ IF StartEscaped(value, b)
             THEN match' = match /\ pc' = "find_inner"
             ELSE match' = TRUE /\ pc' = "find_matched"
    /\ UNCHANGED <<given, value, end, pass, exc, exit, loop_value, calls>>

\* _find_replace_part: `if match: break`
FindMatched ==
    /\ pc = "find_matched"
    /\ pc' = IF match THEN "find_return" ELSE "find_outer"
    /\ UNCHANGED <<given, value, finder, pass, exc, exit, loop_value, calls>>

\* _find_replace_part returns; replace: `if not match: break`
FindReturn ==
    /\ pc = "find_return"
    /\ IF match THEN pc' = "substitute" /\ exit' = exit
       ELSE pc' = "strip" /\ exit' = "no_match"
    /\ UNCHANGED <<given, value, finder, pass, exc, loop_value, calls>>

\* replace, line 31: value[:start] + replaced + value[end + 1 :]
Splice(s, b, e, text) == PyUpTo(s, b) \o text \o PyFrom(s, e + 1)

\* replace, lines 29-31; an exception of _replace_match leaves replace
Substitute ==
    /\ pc = "substitute"
    /\ LET text == PySlice(value, start + 1, end)
           got == replace_match(conf, name, loader, environ, text)
       IN /\ to_replace' = text
          /\ IF got.raises # ""
             THEN /\ exc' = got.raises /\ pc' = "raised"
                  /\ UNCHANGED <<replaced, new_value>>
             ELSE /\ replaced' = got.v
                  /\ new_value' = Splice(value, start, end, got.v)
                  /\ exc' = exc /\ pc' = "compare"
    /\ UNCHANGED <<given, value, finder, exit, loop_value, calls>>

\* replace leaving its loop after the first substitution, whether or not the
\* string changed
Compare_OnePass ==
    /\ pc = "compare"
    /\ IF new_value = value
       THEN pc' = "strip" /\ exit' = "unchanged" /\ value' = value
       ELSE IF Len(new_value) > MaxValueLen
       THEN pc' = "cut" /\ exit' = exit /\ value' = value
       ELSE pc' = "strip" /\ exit' = exit /\ value' = new_value
    /\ UNCHANGED <<given, finder, pass, exc, loop_value, calls>>

\* replace, lines 32-34: stop when the string did not change
Compare ==
    /\ pc = "compare"
    /\ IF new_value = value
       THEN pc' = "strip" /\ exit' = "unchanged" /\ value' = value
       ELSE IF Len(new_value) > MaxValueLen
       THEN pc' = "cut" /\ exit' = exit /\ value' = value
       ELSE pc' = "loop" /\ exit' = exit /\ value' = new_value
    /\ UNCHANGED <<given, finder, pass, exc, loop_value, calls>>

\* replace, lines 36-38: remove the escape sequences and return
Strip ==
    /\ pc = "strip"
    /\ loop_value' = value
    /\ value' = RemoveEscapes(value)
    /\ pc' = "done"
    /\ UNCHANGED <<given, finder, pass, exc, exit, calls>>

\* a caller hands the result of replace to replace again, with the same
\* conf, name, loader and environment
CallAgain ==
    /\ pc = "done" /\ call = 1
    /\ first' = [input |-> input, result |-> value, loop_value |-> loop_value]
    /\ call' = 2
    /\ input' = value
    /\ pc' = "loop"
    /\ exit' = ""
    /\ UNCHANGED <<conf, name, loader, environ, value, finder, pass, exc,
                   loop_value>>

----------------------------------------------------------------------------
(* The calls the model follows: the strings, and the contents of the       *)
(* sources.  Key k is the one a source may hold, key j is held by none;    *)
(* e is the environment conf knows and z one it does not know; s is a      *)
(* section the loader may have and u one it never has.                     *)

Alphabet == {"{", "}", "\\", "k"}

\* every string over the alphabet of at most n characters
StringsUpTo(n) == UNION {[1 .. m -> Alphabet] : m \in 0 .. n}

Bracketed(text) == <<"[">> \o text \o <<"]">>

Qualifiers ==
    {<<>>, Bracketed(CORE_PREFIX), Bracketed(<<"s">>), Bracketed(<<"u">>),
     Bracketed(BASE_TEST_ENV), Bracketed(BASE_TEST_ENV \o <<":", "e">>),
     Bracketed(BASE_TEST_ENV \o <<":", "z">>)}

KeyNames == {<<"k">>, <<"j">>}

\* what follows the key: nothing, a default, an empty default, more text
Tails == {<<>>, <<":", "d">>, <<":">>, <<" ", "x">>}

References == {q \o k \o t : q \in Qualifiers, k \in KeyNames, t \in Tails}

EnvX == ENV_TYPE \o <<":", "X">>

Specials ==
    {ENV_TYPE, EnvX, EnvX \o <<":", "d">>, POSARGS_TYPE,
     POSARGS_TYPE \o <<":", "d">>}

\* a string that is one placeholder
Placeholders == {Braced(r) : r \in References \union Specials}

\* a string with two placeholders side by side or one inside the other, some
\* of them escaped
Firsts ==
    {<<"{", "j", "}">>, <<"{", "k", "}">>, <<"\\", "{", "k", "\\", "}">>,
     <<"{", "k", "}", "{", "k", "}">>, <<"a">>}

Seconds ==
    {<<"{", "j", "}">>, <<"{", "k", "}">>, Braced(EnvX \o <<":", "d">>)}

Nested ==
    {Braced(EnvX \o <<":">> \o <<"{", "j", "}">>),
     Braced(<<"j", ":", "{", "k", "}">>),
     Braced(<<"k", ":", "{", "j", "}">>)}

Compounds == {a \o b : a \in Firsts, b \in Seconds} \union Nested

StrValue(text) == [kind |-> "str", text |-> text]

\* the ConfigSets: the core section, and the environment e
CoreSets ==
    {EmptyMap, <<"k">> :> StrValue(<<"v">>),
     <<"k">> :> [kind |-> "obj", text |-> <<"o">>],
     <<"k">> :> [kind |-> "err", text |-> <<>>]}

EnvSets == {EmptyMap, <<"k">> :> StrValue(<<"w">>)}

PosArgs == {None, Some(<<>>), Some(<<<<"a">>, <<"b">>>>)}

Configs ==
    {None} \union
    {Some([core |-> c, envs |-> (<<"e">> :> e), pos_args |-> p]) :
        c \in CoreSets, e \in EnvSets, p \in PosArgs}

\* the current environment is one conf knows
Names == {None, Some(<<"e">>)}

Loaders ==
    {EmptyMap, <<"s">> :> EmptyMap, <<"s">> :> (<<"k">> :> <<"u">>),
     (<<"s">> :> (<<"k">> :> <<"u">>)) @@ (BASE_TEST_ENV :> (<<"k">> :> <<"t">>))}

Environs == {EmptyMap, <<"X">> :> <<"x">>}

\* the configuration the strings over the alphabet are tried with, besides none
PlainConfig ==
    Some([core |-> <<"k">> :> StrValue(<<"v">>), envs |-> (<<"e">> :> EmptyMap),
          pos_args |-> None])

\* the state at the first line of replace
Entry(s, c, n, l, e) ==
    /\ input = s /\ conf = c /\ name = n /\ loader = l /\ environ = e
    /\ value = s
    /\ pc = "loop"
    /\ start = 0 /\ end = 0 /\ match = FALSE
    /\ to_replace = <<>> /\ replaced = <<>> /\ new_value = <<>>
    /\ exc = "" /\ exit = "" /\ loop_value = <<>>
    /\ call = 1
    /\ first = [input |-> <<>>, result |-> <<>>, loop_value |-> <<>>]

\* replace is called on a string over the alphabet
InitScan ==
    \E s \in StringsUpTo(MaxLen), c \in {None, PlainConfig} :
        Entry(s, c, None, EmptyMap, EmptyMap)

\* replace is called on placeholders, with every content of the sources
InitRef ==
    \E s \in Placeholders \union Compounds, c \in Configs, n \in Names,
       l \in Loaders, e \in Environs :
        Entry(s, c, n, l, e)

Init == InitScan \/ InitRef

Next ==
    \/ CallFind
    \/ FindOuter
    \/ FindScan
    \/ FindInner
    \/ FindBack
    \/ FindMatched
    \/ FindReturn
    \/ Substitute
    \/ Compare
    \/ Strip

\* one call of replace
Spec == Init /\ [][Next]_vars

\* one call of replace on a string over the alphabet, which runs on as long
\* as it has a next step
FairSpec == InitScan /\ [][Next]_vars /\ WF_vars(Next)

NextTwice == Next \/ CallAgain

\* a call of replace, and a second call on what the first returned
SpecTwice == Init /\ [][NextTwice]_vars

----------------------------------------------------------------------------
(* What the claims speak of.                                               *)

\* the character right before index i is a backslash
Backslashed(s, i) == i >= 1 /\ At(s, i - 1) = "\\"

\* a placeholder text _replace_match hands to replace_reference
IsReference(text) ==
    LET of_type == ARGS_GROUP_split(text)[1]
    IN of_type # ENV_TYPE /\ of_type # POSARGS_TYPE

\* the whole text, not only a prefix of it, is a reference of the grammar
WholeMatch(text) ==
    REPLACE_REF_match(text).ok /\ REPLACE_REF_match(text).stop = Len(text)

\* the indices of the "}" (or "{") of s with no backslash right before them
Unescaped(s, ch) ==
    {i \in 0 .. Len(s) - 1 : At(s, i) = ch /\ ~Backslashed(s, i)}

\* s holds an unescaped "}" with no unescaped "{" before it
Unbalanced(s) ==
    /\ Unescaped(s, "}") # {}
    /\ \A b \in Unescaped(s, "{") : b > Min(Unescaped(s, "}"))

\* a text with no brace in it
BraceFree(t) == \A i \in 1 .. Len(t) : t[i] \notin {"{", "}"}

\* the placeholder texts of s from index `from` on: what stands between a
\* "{" and the next "}" with no brace in between
SpansFrom(s, from) ==
    LET range == from .. Len(s) - 1
        pairs == {p \in range \X range :
                    /\ p[1] < p[2]
                    /\ At(s, p[1]) = "{" /\ At(s, p[2]) = "}"
                    /\ BraceFree(PySlice(s, p[1] + 1, p[2]))}
    IN {PySlice(s, p[1] + 1, p[2]) : p \in pairs}

\* s holds a fragment {key} whose key no source holds: the resolvers give
\* the fragment back as it is
HasUnresolvedKey(s) ==
    \E t \in SpansFrom(s, 0) :
        /\ t # <<>>
        /\ \A i \in 1 .. Len(t) : t[i] \in KeyChars
        /\ replace_match(conf, name, loader, environ, t) = Returns(Braced(t))

\* s holds, from index `from` on, a placeholder the resolvers would replace
HasResolvable(s, from) ==
    \E t \in SpansFrom(s, from) :
        LET got == replace_match(conf, name, loader, environ, t)
        IN got.raises = "" /\ got.v # Braced(t)

\* the ConfigSet of the current environment
CurrentEnvSet == conf.v.envs[name.v]

----------------------------------------------------------------------------
(* The claims.                                                             *)

\* C1: every call of replace terminates: it returns or raises.  (A call the
\* model stops following because the string outgrew MaxValueLen counts as
\* ended here.)
C1_ReplaceTerminates == <>(pc \in Ended)

\* C2: the span _find_replace_part returns never starts or ends at a brace
\* that has a backslash right before it, and `value` changes inside the loop
\* only by the splice of line 34; the escapes are rewritten after the loop.
C2_EscapedBraceNeverBoundary ==
    [][/\ pc' = "substitute" =>
            ~Backslashed(value', start') /\ ~Backslashed(value', end')
       /\ value' # value =>
            \/ pc = "strip"
            \/ pc = "compare" /\ value' = new_value]_vars

\* C3: an unqualified reference, with a conf and a current environment: the
\* core section is probed first.  When core holds the key (as a value
\* stringify renders) the result is core's value; the environment's value is
\* the result when core lacks the key.
C3_CoreBeforeCurrentEnv ==
    (/\ pc = "compare" /\ IsReference(to_replace)
     /\ REPLACE_REF_match(to_replace).ok
     /\ ~REPLACE_REF_match(to_replace).full_env.has
     /\ conf.has /\ name.has)
    => LET key == REPLACE_REF_match(to_replace).key
           core == conf.v.core
       IN /\ (key \in DOMAIN core /\ core[key].kind = "str")
                => replaced = core[key].text
          /\ (key \notin DOMAIN core /\ key \in DOMAIN CurrentEnvSet
              /\ CurrentEnvSet[key].kind = "str")
                => replaced = CurrentEnvSet[key].text

\* C3's case: core and the current environment both hold the key, with
\* different values, and the result is core's
C3_Witness ==
    /\ pc = "compare" /\ to_replace = <<"k">>
    /\ conf.has /\ name.has
    /\ <<"k">> \in DOMAIN conf.v.core /\ <<"k">> \in DOMAIN CurrentEnvSet
    /\ conf.v.core[<<"k">>].kind = "str"
    /\ conf.v.core[<<"k">>].text # CurrentEnvSet[<<"k">>].text
    /\ replaced = conf.v.core[<<"k">>].text

\* the key of a qualified reference is not to be had from the source its
\* qualifier names: the environment, the core section under its name tox, or
\* the loader's section
AbsentFromNamed(m) ==
    IF m.env.has
    THEN ~conf.has \/ m.env.v \notin DOMAIN conf.v.envs
         \/ m.key \notin DOMAIN conf.v.envs[m.env.v]
    ELSE IF m.full_env.v = CORE_PREFIX
    THEN ~conf.has \/ m.key \notin DOMAIN conf.v.core
    ELSE m.full_env.v \notin DOMAIN loader
         \/ m.key \notin DOMAIN loader[m.full_env.v]

\* C4: a qualified reference consults the named source only: when the key is
\* absent from it, or it does not exist, the result is the default if there
\* is one and else the placeholder text in braces.
C4_QualifiedOnlyNamedSource ==
    (/\ pc = "compare" /\ IsReference(to_replace)
     /\ REPLACE_REF_match(to_replace).ok
     /\ REPLACE_REF_match(to_replace).full_env.has
     /\ AbsentFromNamed(REPLACE_REF_match(to_replace)))
    => replaced = IF REPLACE_REF_match(to_replace).default.has
                  THEN REPLACE_REF_match(to_replace).default.v
                  ELSE Braced(to_replace)

\* C4's case: {[s]k}, the section s lacks k, core holds k, and the result is
\* the placeholder itself
C4_Witness ==
    /\ pc = "compare" /\ to_replace = <<"[", "s", "]", "k">>
    /\ <<"s">> \in DOMAIN loader /\ <<"k">> \notin DOMAIN loader[<<"s">>]
    /\ conf.has /\ <<"k">> \in DOMAIN conf.v.core
    /\ conf.v.core[<<"k">>].kind = "str"
    /\ replaced = Braced(to_replace)

\* C5: a reference whose walk over the sources finds the key nowhere, or is
\* ended by an exception that is no KeyError, gives its default when it has
\* one and else its own text in braces; no exception leaves replace.
C5_SoftMissUsesDefault ==
    /\ (pc = "compare" /\ IsReference(to_replace) /\ WholeMatch(to_replace)
        /\ ReferenceWalk(conf, name, loader, to_replace).how # "hit")
       => replaced = IF REPLACE_REF_match(to_replace).default.has
                     THEN REPLACE_REF_match(to_replace).default.v
                     ELSE Braced(to_replace)
    /\ pc = "raised" => ~IsReference(to_replace)

\* C6: when stringify fails on the value a reference found, the failure
\* leaves replace: the call does not go on with a replacement text.
C6_StringifyFailurePropagates ==
    (/\ pc = "compare" /\ IsReference(to_replace)
     /\ REPLACE_REF_match(to_replace).ok)
    => ReferenceWalk(conf, name, loader, to_replace).how # "stringify"

\* C7: replace is idempotent on a result that holds an unresolved {key}.
C7_IdempotentOnResult ==
    (call = 2 /\ pc = "done" /\ HasUnresolvedKey(first.result))
    => value = first.result

\* C7 as amended: when the first call's removal of escapes changed nothing, a
\* second call on a result that holds an unresolved {key} returns the result
\* as it is (and neither raises nor outgrows the model).
C7_IdempotentWhenNothingUnescaped ==
    (call = 2 /\ HasUnresolvedKey(first.result)
     /\ first.loop_value = first.result)
    => /\ pc \notin {"raised", "cut"}
       /\ pc = "done" => value = first.result

\* C7's case: the first call replaced something, left an unresolved {key},
\* had no escape to remove, and the second call gave the same string
C7_Witness ==
    /\ call = 2 /\ pc = "done"
    /\ HasResolvable(first.input, 0)
    /\ first.input # first.result
    /\ HasUnresolvedKey(first.result)
    /\ first.loop_value = first.result
    /\ value = first.result

\* C8: for a string with an unescaped "}" and no unescaped "{" before it the
\* finder reports no match, and replace never goes on with start = -1.
C8_UnbalancedReportsNoMatch ==
    /\ (pc = "find_return" /\ Unbalanced(value)) => ~match
    /\ pc \in {"substitute", "compare"} => start # -1

\* C9: a reference text the grammar does not match as a whole comes back in
\* braces, unresolved.
C9_GrammarMismatchEchoed ==
    (pc = "compare" /\ start >= 0 /\ At(value, start) = "{"
     /\ IsReference(to_replace) /\ ~WholeMatch(to_replace))
    => replaced = Braced(to_replace)

============================================================================
